---- MODULE Spec2Model ----
(***************************************************************************)
(* A model of bigfloat.c: the fixed-point BigFloat arithmetic (zero, copy, *)
(* set_d, to_d, add, sub, mul, sqr, from_str) and the Mandelbrot layer     *)
(* built on it (step, iterate, compute_reference_orbit).                   *)
(*                                                                         *)
(* Widths.  The source uses 32-bit limbs (limb_t), 64-bit double limbs     *)
(* (dlimb_t) and IEEE doubles with a 53-bit significand.  TLC's integers   *)
(* are 32-bit, so the model keeps every truncation of the source but at a  *)
(* limb width of LimbBits bits: a limb_t is a value mod 2^LimbBits, a      *)
(* dlimb_t a value mod 2^(2*LimbBits), and a double a binary float with a  *)
(* DBL_MANT-bit significand, rounded to nearest-even after each operation. *)
(* The 4-bit integer part of the top limb is kept at 4 bits, so the        *)
(* source's shift by 28 is a shift by LimbBits - 4.                        *)
(***************************************************************************)
EXTENDS Integers, Naturals, Sequences, FiniteSets, TLC

\* ------------------------------------------------------------------ bounds
\* Width of a limb in the model (BF_LIMB_BITS is 32 in the source).
LimbBits == 8
\* Operands with 1..MaxLimbs limbs are enumerated limb by limb.
MaxLimbs == 3

\* ------------------------------------------------------- program constants
BF_INT_BITS == 4
KARATSUBA_THRESHOLD == 16

\* --------------------------------------------------------------- widths
LimbBase == 2^LimbBits
DLimbBase == LimbBase * LimbBase
FracShift == LimbBits - BF_INT_BITS
\* (limb_t)x and the wrap of a dlimb_t expression
Limb(x) == x % LimbBase
DLimb(x) == x % DLimbBase

\* ------------------------------------------------------------- BigFloat
\* limbs is indexed 0..nlimbs-1, least significant first; limbs at or above
\* nlimbs are never read by the modelled code and are not represented.
MkBF(l, n, s) == [limbs |-> l, nlimbs |-> n, sign |-> s]
ZeroLimbs(n) == [i \in 0..(n - 1) |-> 0]

bf_zero(nlimbs) == MkBF(ZeroLimbs(nlimbs), nlimbs, 0)

bf_copy(x) == MkBF([i \in 0..(x.nlimbs - 1) |-> x.limbs[i]], x.nlimbs, x.sign)

RECURSIVE cmp_mag_from(_, _, _)
cmp_mag_from(x, y, i) ==
  IF i < 0 THEN 0
  ELSE IF x.limbs[i] < y.limbs[i] THEN -1
  ELSE IF x.limbs[i] > y.limbs[i] THEN 1
  ELSE cmp_mag_from(x, y, i - 1)

bf_cmp_mag(x, y) == cmp_mag_from(x, y, x.nlimbs - 1)

\* carries of the ripple addition: AddCarry(x, y, i) is the carry into limb i
RECURSIVE AddCarry(_, _, _)
AddCarry(x, y, i) ==
  IF i = 0 THEN 0
  ELSE DLimb(x.limbs[i - 1] + y.limbs[i - 1] + AddCarry(x, y, i - 1)) \div LimbBase

bf_add_mag(x, y) ==
  [i \in 0..(x.nlimbs - 1) |-> Limb(DLimb(x.limbs[i] + y.limbs[i] + AddCarry(x, y, i)))]

\* SubBorrow(x, y, i) is the borrow into limb i
RECURSIVE SubBorrow(_, _, _)
SubBorrow(x, y, i) ==
  IF i = 0 THEN 0
  ELSE IF x.limbs[i - 1] - y.limbs[i - 1] - SubBorrow(x, y, i - 1) < 0 THEN 1 ELSE 0

bf_sub_mag(x, y) ==
  [i \in 0..(x.nlimbs - 1) |->
     LET diff == x.limbs[i] - y.limbs[i] - SubBorrow(x, y, i)
     IN  Limb(IF diff < 0 THEN diff + LimbBase ELSE diff)]

bf_is_zero(x) == \A i \in 0..(x.nlimbs - 1) : x.limbs[i] = 0

\* mutant: opposite signs, |x| < |y|: the result takes the sign of x
bf_add_SignOfFirst(x, y) ==
  IF x.sign = 0 THEN bf_copy(y)
  ELSE IF y.sign = 0 THEN bf_copy(x)
  ELSE LET r1 == IF x.sign = y.sign
                   THEN MkBF(bf_add_mag(x, y), x.nlimbs, x.sign)
                 ELSE LET cmp == bf_cmp_mag(x, y)
                      IN  IF cmp = 0 THEN bf_zero(x.nlimbs)
                          ELSE IF cmp > 0 THEN MkBF(bf_sub_mag(x, y), x.nlimbs, x.sign)
                          ELSE MkBF(bf_sub_mag(y, x), x.nlimbs, x.sign)
       IN  IF bf_is_zero(r1) THEN [r1 EXCEPT !.sign = 0] ELSE r1

bf_add(x, y) ==
  IF x.sign = 0 THEN bf_copy(y)
  ELSE IF y.sign = 0 THEN bf_copy(x)
  ELSE LET r1 == IF x.sign = y.sign
                   THEN MkBF(bf_add_mag(x, y), x.nlimbs, x.sign)
                 ELSE LET cmp == bf_cmp_mag(x, y)
                      IN  IF cmp = 0 THEN bf_zero(x.nlimbs)
                          ELSE IF cmp > 0 THEN MkBF(bf_sub_mag(x, y), x.nlimbs, x.sign)
                          ELSE MkBF(bf_sub_mag(y, x), x.nlimbs, y.sign)
       IN  IF bf_is_zero(r1) THEN [r1 EXCEPT !.sign = 0] ELSE r1

bf_sub(x, y) ==
  LET neg_b == [bf_copy(y) EXCEPT !.sign = -y.sign]
  IN  bf_add(x, neg_b)

\* ------------------------------------------------------- multiplication
\* scratch is indexed 0..2n+1, the part memset clears and the code touches.
\* A loop is a recursion on its state (the variables it assigns, its index
\* among them), one application of the body per pass.
ClearScratch(n) == [k \in 0..(2 * n + 1) |-> 0]

\* the body of the inner loop of bf_mul_schoolbook; st = [s, carry, j]
MulInnerBody(st, x, y, i) ==
  LET prod == DLimb(x.limbs[i] * y.limbs[st.j])
      sum  == DLimb(st.s[i + st.j] + prod + st.carry)
  IN  [s |-> [st.s EXCEPT ![i + st.j] = Limb(sum)], carry |-> sum \div LimbBase, j |-> st.j + 1]

RECURSIVE MulInner(_, _, _, _)
MulInner(st, x, y, i) ==
  IF st.j >= x.nlimbs THEN st ELSE MulInner(MulInnerBody(st, x, y, i), x, y, i)

\* one pass of the outer loop: row i
MulRow(s, x, y, i) ==
  LET in == MulInner([s |-> s, carry |-> 0, j |-> 0], x, y, i)
  IN  [in.s EXCEPT ![i + x.nlimbs] = Limb(in.s[i + x.nlimbs] + Limb(in.carry))]

\* the outer loop; st = [s, i]
RECURSIVE MulRows(_, _, _)
MulRows(st, x, y) ==
  IF st.i >= x.nlimbs THEN st.s
  ELSE MulRows([s |-> MulRow(st.s, x, y, st.i), i |-> st.i + 1], x, y)

\* mutant: the window is not refilled with the 4 bits from the limb below
Extract_NoReread(s, n) ==
  [i \in 0..(n - 1) |-> Limb(DLimb(s[n + i] * 2^BF_INT_BITS))]

\* "Copy upper n limbs, shifted by 4 bits to realign"
Extract(s, n) ==
  [i \in 0..(n - 1) |->
     LET hi == DLimb(s[n + i] * 2^BF_INT_BITS)
         lo == IF n + i > 0 THEN s[n + i - 1] \div 2^FracShift ELSE 0
     IN  Limb(hi + lo)]

MulSign(x, y) ==
  IF x.sign = 0 \/ y.sign = 0 THEN 0 ELSE IF x.sign = y.sign THEN 1 ELSE -1

\* "if (bf_is_zero(r)) r->sign = 0"
NormZero(r1) == IF bf_is_zero(r1) THEN [r1 EXCEPT !.sign = 0] ELSE r1

bf_mul_schoolbook(x, y) ==
  LET n == x.nlimbs
      s == MulRows([s |-> ClearScratch(n), i |-> 0], x, y)
  IN  NormZero(MkBF(Extract(s, n), n, MulSign(x, y)))

bf_mul_karatsuba(x, y, depth) == bf_mul_schoolbook(x, y)

bf_mul(x, y) ==
  IF x.nlimbs <= KARATSUBA_THRESHOLD THEN bf_mul_schoolbook(x, y)
  ELSE bf_mul_karatsuba(x, y, 0)

\* ------------------------------------------------------------- squaring
\* the carry-propagation while loop of bf_sqr; st = [s, carry, k]
RECURSIVE SqrCarry(_, _)
SqrCarry(st, n) ==
  IF st.carry # 0 /\ st.k < 2 * n + 2
    THEN LET sum == DLimb(st.s[st.k] + st.carry)
         IN  SqrCarry([s |-> [st.s EXCEPT ![st.k] = Limb(sum)],
                       carry |-> sum \div LimbBase, k |-> st.k + 1], n)
    ELSE st.s

\* one off-diagonal term (i, j), doubled
SqrOff(s, x, i, j) ==
  LET prod0   == DLimb(x.limbs[i] * x.limbs[j])
      prod_hi == prod0 \div 2^(2 * LimbBits - 1)
      prod    == DLimb(prod0 * 2)
      sum     == DLimb(s[i + j] + Limb(prod))
      carry   == DLimb((sum \div LimbBase) + (prod \div LimbBase) + prod_hi)
  IN  SqrCarry([s |-> [s EXCEPT ![i + j] = Limb(sum)], carry |-> carry, k |-> i + j + 1],
               x.nlimbs)

\* the off-diagonal loop of row i; st = [s, j]
RECURSIVE SqrOffs(_, _, _)
SqrOffs(st, x, i) ==
  IF st.j >= x.nlimbs THEN st.s
  ELSE SqrOffs([s |-> SqrOff(st.s, x, i, st.j), j |-> st.j + 1], x, i)

\* the diagonal term of row i
SqrDiag(s, x, i) ==
  LET diag  == DLimb(x.limbs[i] * x.limbs[i])
      sum   == DLimb(s[2 * i] + Limb(diag))
      carry == DLimb((sum \div LimbBase) + (diag \div LimbBase))
      s1    == [s EXCEPT ![2 * i] = Limb(sum)]
      s2    == [s1 EXCEPT ![2 * i + 1] = Limb(s1[2 * i + 1] + Limb(carry))]
  IN  IF carry \div LimbBase # 0
        THEN [s2 EXCEPT ![2 * i + 2] = Limb(s2[2 * i + 2] + 1)]
        ELSE s2

\* one pass of the outer loop: row i
SqrRow(s, x, i) == SqrOffs([s |-> SqrDiag(s, x, i), j |-> i + 1], x, i)

\* the outer loop; st = [s, i]
RECURSIVE SqrRows(_, _)
SqrRows(st, x) ==
  IF st.i >= x.nlimbs THEN st.s
  ELSE SqrRows([s |-> SqrRow(st.s, x, st.i), i |-> st.i + 1], x)

\* mutant: the square keeps the sign of its operand
bf_sqr_KeepSign(x) ==
  LET n == x.nlimbs
      s == SqrRows([s |-> ClearScratch(n), i |-> 0], x)
  IN  NormZero(MkBF(Extract(s, n), n, x.sign))

bf_sqr(x) ==
  LET n == x.nlimbs
      s == SqrRows([s |-> ClearScratch(n), i |-> 0], x)
  IN  NormZero(MkBF(Extract(s, n), n, IF x.sign # 0 THEN 1 ELSE 0))

\* -------------------------------------------------------------- doubles
\* A double is [m, e], the value m * 2^e, with m odd (or m = 0 and e = 0)
\* and |m| < 2^DBL_MANT.  The source's doubles have a 53-bit significand
\* beside 32-bit limbs; the model keeps that ratio.
DBL_MANT == (53 * LimbBits) \div 32

Abs(k) == IF k < 0 THEN -k ELSE k

RECURSIVE BitLen(_)
BitLen(m) == IF m = 0 THEN 0 ELSE 1 + BitLen(m \div 2)

RECURSIVE DNorm(_, _)
DNorm(m, e) ==
  IF m = 0 THEN [m |-> 0, e |-> 0]
  ELSE IF m % 2 = 0 THEN DNorm(m \div 2, e + 1)
  ELSE [m |-> m, e |-> e]

\* round m * 2^e (m >= 0) to DBL_MANT significant bits, ties to even
DRoundPos(m, e) ==
  LET len == BitLen(m)
  IN  IF len <= DBL_MANT THEN DNorm(m, e)
      ELSE LET sh   == len - DBL_MANT
               q    == m \div 2^sh
               rem  == m % 2^sh
               half == 2^(sh - 1)
               up   == rem > half \/ (rem = half /\ q % 2 = 1)
           IN  DNorm(IF up THEN q + 1 ELSE q, e + sh)

DNeg(x) == [m |-> -x.m, e |-> x.e]
DRound(m, e) == IF m < 0 THEN DNeg(DRoundPos(-m, e)) ELSE DRoundPos(m, e)

DZero == [m |-> 0, e |-> 0]
\* (double)k for an integer k
DInt(k) == DRound(k, 0)
\* x * 2^k, exact
DScale(x, k) == IF x.m = 0 THEN x ELSE [m |-> x.m, e |-> x.e + k]
DMul(x, y) == DRound(x.m * y.m, x.e + y.e)
\* exponent of the leading bit, for x # 0
DTop(x) == BitLen(Abs(x.m)) + x.e

\* x < y
DLess(x, y) ==
  IF x.m <= 0 /\ y.m > 0 THEN x.m # 0 \/ y.m # 0
  ELSE IF x.m >= 0 /\ y.m <= 0 THEN FALSE
  ELSE IF x.m < 0 /\ y.m = 0 THEN TRUE
  ELSE \* same nonzero sign
       IF DTop(x) # DTop(y) THEN (DTop(x) < DTop(y)) = (x.m > 0)
       ELSE LET lo == IF x.e < y.e THEN x.e ELSE y.e
            IN  x.m * 2^(x.e - lo) < y.m * 2^(y.e - lo)

\* x + y for x, y >= 0, correctly rounded: the smaller operand is cut below
\* a guard position and its lost bits kept as a sticky bit
DAddPos(x, y) ==
  IF x.m = 0 THEN y
  ELSE IF y.m = 0 THEN x
  ELSE LET big == IF DLess(x, y) THEN y ELSE x
           sml == IF DLess(x, y) THEN x ELSE y
           q   == DTop(big) - 1 - DBL_MANT - 1
           X   == big.m * 2^(big.e - q)
           cut == q - sml.e
           Y   == IF cut <= 0 THEN sml.m * 2^(-cut)
                  ELSE IF cut > DBL_MANT THEN 0 ELSE sml.m \div 2^cut
           st  == IF cut <= 0 THEN 0 ELSE 1
       IN  DRound(2 * (X + Y) + st, q - 1)

\* x - y where the source's subtraction is exact (d - (int)d)
DSub(x, y) ==
  IF y.m = 0 THEN x
  ELSE LET lo == IF x.e < y.e THEN x.e ELSE y.e
       IN  DRound(x.m * 2^(x.e - lo) - y.m * 2^(y.e - lo), lo)

\* x - y for x >= y >= 0, correctly rounded: y is cut below three guard
\* positions and its lost bits kept as a sticky bit
DSubPos(x, y) ==
  IF y.m = 0 THEN x
  ELSE LET q   == DTop(x) - DBL_MANT - 3
           X   == x.m * 2^(x.e - q)
           cut == q - y.e
           Y   == IF cut <= 0 THEN y.m * 2^(-cut)
                  ELSE IF cut > DBL_MANT THEN 0 ELSE y.m \div 2^cut
           st  == IF cut <= 0 THEN 0 ELSE 1
       IN  DRound(2 * (X - Y) - st, q - 1)

\* x - y for x, y >= 0
DDiff(x, y) == IF DLess(x, y) THEN DNeg(DSubPos(y, x)) ELSE DSubPos(x, y)

\* (int)x and (limb_t)x for x >= 0: truncation toward zero
DTrunc(x) ==
  IF x.m = 0 \/ DTop(x) <= 0 THEN 0
  ELSE IF x.e >= 0 THEN x.m * 2^x.e ELSE x.m \div 2^(-x.e)

\* ---------------------------------------------------------- conversions
\* the fractional loop of bf_set_d from limb i down
RECURSIVE SetDLoop(_, _, _, _)
SetDLoop(l, d, i, n) ==
  IF i >= 0 /\ DLess(DZero, d)
    THEN LET d1   == DScale(d, LimbBits)
             limb == Limb(DTrunc(d1))
             d2   == DSub(d1, DInt(limb))
             l1   == IF i = n - 1
                       THEN [l EXCEPT ![i] = l[i] + (limb \div 2^BF_INT_BITS)]
                       ELSE [l EXCEPT ![i] = limb]
         IN  SetDLoop(l1, d2, i - 1, n)
    ELSE l

bf_set_d(d, nlimbs) ==
  IF d.m = 0 THEN bf_zero(nlimbs)
  ELSE LET sign     == IF DLess(d, DZero) THEN -1 ELSE 1
           dabs     == IF DLess(d, DZero) THEN DNeg(d) ELSE d
           int_part == DTrunc(dabs)
           frac     == DSub(dabs, DInt(int_part))
           l0       == [ZeroLimbs(nlimbs) EXCEPT ![nlimbs - 1] = Limb(int_part * 2^FracShift)]
       IN  MkBF(SetDLoop(l0, frac, nlimbs - 1, nlimbs), nlimbs, sign)

\* the loop of bf_to_d from limb i down
RECURSIVE ToDLoop(_, _, _, _)
ToDLoop(x, i, result, scale) ==
  IF i < 0 THEN result
  ELSE IF i = x.nlimbs - 1
    THEN LET ip == DInt(x.limbs[i] \div 2^FracShift)
             fp == DScale(DInt(x.limbs[i] % 2^FracShift), -FracShift)
         IN  ToDLoop(x, i - 1, DAddPos(ip, fp), scale)
  ELSE LET scale1 == DScale(scale, -LimbBits)
       IN  ToDLoop(x, i - 1, DAddPos(result, DMul(DInt(x.limbs[i]), scale1)), scale1)

bf_to_d(x) ==
  IF x.sign = 0 THEN DZero
  ELSE LET result == ToDLoop(x, x.nlimbs - 1, DZero, DInt(1))
       IN  IF x.sign < 0 THEN DNeg(result) ELSE result

\* mutant: escaped at the bound, not only beyond it
bf_escaped_AtBound(re, im, threshold) ==
  IF re.nlimbs = 0 THEN FALSE
  ELSE LET re_d   == bf_to_d(re)
           im_d   == bf_to_d(im)
           mag_sq == DAddPos(DMul(re_d, re_d), DMul(im_d, im_d))
       IN  ~DLess(mag_sq, threshold)

bf_escaped(re, im, threshold) ==
  IF re.nlimbs = 0 THEN FALSE
  ELSE LET re_d   == bf_to_d(re)
           im_d   == bf_to_d(im)
           mag_sq == DAddPos(DMul(re_d, re_d), DMul(im_d, im_d))
       IN  DLess(threshold, mag_sq)

\* --------------------------------------------------------------- parsing
\* A C string is a sequence of one-character strings; reading at or past
\* its end reads the terminating NUL.
CharAt(str, p) == IF p <= Len(str) THEN str[p] ELSE "NUL"
Digits == <<"0", "1", "2", "3", "4", "5", "6", "7", "8", "9">>
IsDigit(c) == \E k \in 1..10 : Digits[k] = c
DigitVal(c) == (CHOOSE k \in 1..10 : Digits[k] = c) - 1
\* the double nearest to 0.1
DTenth == DNorm((2^(DBL_MANT + 4) + 10) \div 20, -(DBL_MANT + 3))

RECURSIVE SkipSpaces(_, _)
SkipSpaces(str, p) == IF CharAt(str, p) = " " THEN SkipSpaces(str, p + 1) ELSE p

\* the integer-part loop: [p, v]
RECURSIVE ParseInt(_, _, _)
ParseInt(str, p, int_part) ==
  IF IsDigit(CharAt(str, p))
    THEN ParseInt(str, p + 1,
                  DAddPos(DMul(int_part, DInt(10)), DInt(DigitVal(CharAt(str, p)))))
    ELSE [p |-> p, v |-> int_part]

\* the fractional-part loop
RECURSIVE ParseFrac(_, _, _, _)
ParseFrac(str, p, frac, frac_scale) ==
  IF IsDigit(CharAt(str, p))
    THEN ParseFrac(str, p + 1,
                   DAddPos(frac, DMul(DInt(DigitVal(CharAt(str, p))), frac_scale)),
                   DMul(frac_scale, DTenth))
    ELSE frac

\* the double bf_from_str hands to bf_set_d, and whether a '-' was read
StrMagnitude(str) ==
  LET p0  == SkipSpaces(str, 1)
      p1  == IF CharAt(str, p0) = "-" \/ CharAt(str, p0) = "+" THEN p0 + 1 ELSE p0
      ip  == ParseInt(str, p1, DZero)
      fr  == IF CharAt(str, ip.p) = "." THEN ParseFrac(str, ip.p + 1, DZero, DTenth)
             ELSE DZero
  IN  DAddPos(ip.v, fr)

StrNegative(str) == CharAt(str, SkipSpaces(str, 1)) = "-"

bf_from_str(str, nlimbs) ==
  LET r1 == bf_set_d(StrMagnitude(str), nlimbs)
  IN  IF StrNegative(str) THEN [r1 EXCEPT !.sign = -r1.sign] ELSE r1

\* ------------------------------------------------------------ Mandelbrot
\* the carry into limb i of the doubling pass of mandelbrot_step
RECURSIVE ShlCarry(_, _)
ShlCarry(x, i) ==
  IF i = 0 THEN 0
  ELSE DLimb(x.limbs[i - 1] * 2 + ShlCarry(x, i - 1)) \div LimbBase

\* "Double it (shift left by 1 bit)": the limbs change, sign and nlimbs stay
DoubleLimbs(x) ==
  [x EXCEPT !.limbs = [i \in 0..(x.nlimbs - 1) |->
                         Limb(DLimb(x.limbs[i] * 2 + ShlCarry(x, i)))]]

\* mutant: zi is overwritten before the squares are taken
StepOrder_ZiFirst == <<"mul", "double", "add_zi", "sqr_zr", "sqr_zi", "sub", "add_zr">>

\* The statements of mandelbrot_step in program order.  f is the frame: the
\* BigFloats zr, zi, cr, ci, tmp1, tmp2 the call works on and its local prod.
StepOrder == <<"sqr_zr", "sqr_zi", "mul", "double", "add_zi", "sub", "add_zr">>

StepStmt(stmt, f) ==
  CASE stmt = "sqr_zr" -> [f EXCEPT !.tmp1 = bf_sqr(f.zr)]
    [] stmt = "sqr_zi" -> [f EXCEPT !.tmp2 = bf_sqr(f.zi)]
    [] stmt = "mul"    -> [f EXCEPT !.prod = bf_mul(f.zr, f.zi)]
    [] stmt = "double" -> [f EXCEPT !.prod = DoubleLimbs(f.prod)]
    [] stmt = "add_zi" -> [f EXCEPT !.zi = bf_add(f.prod, f.ci)]
    [] stmt = "sub"    -> [f EXCEPT !.tmp1 = bf_sub(f.tmp1, f.tmp2)]
    [] stmt = "add_zr" -> [f EXCEPT !.zr = bf_add(f.tmp1, f.cr)]

\* the statements from the k-th on
RECURSIVE StepFrom(_, _)
StepFrom(k, f) ==
  IF k > Len(StepOrder) THEN f ELSE StepFrom(k + 1, StepStmt(StepOrder[k], f))

mandelbrot_step(f) == StepFrom(1, f)

\* the escape bounds: 4.0 in mandelbrot_iterate, 1e16 in the reference orbit
ESCAPE_ITERATE == DInt(4)
\* mutant: the reference orbit escapes at the bound of mandelbrot_iterate
ESCAPE_ORBIT_Four == DInt(4)

ESCAPE_ORBIT == DMul(DInt(10^8), DInt(10^8))

\* ------------------------------------------------------------------ state
VARIABLES
  op,      \* the call made on the registers; before it the kind of its
           \* arguments: "args_ab", "args_d" or "args_str"
  a, b,    \* operand BigFloats
  r,       \* the result BigFloat of the call
  d,       \* the double argument of bf_set_d
  str,     \* the string argument of bf_from_str
  dres,    \* the double bf_to_d returned
  fn,      \* the Mandelbrot function running: "step", "iterate", "orbit"
  pc,      \* its position
  args,    \* its scalar arguments: cr_str, ci_str, max_iter, precision_limbs
  fr,      \* its frame: the BigFloats zr, zi, cr, ci, tmp1, tmp2, prod
  loop_i,  \* its loop index i
  ret,     \* its return value
  escape_iter,         \* *escape_iter
  orbit_re, orbit_im,  \* orbit_re_out, orbit_im_out, as far as written
  orbit_z2_re, orbit_z2_im,  \* orbit_z2_re_out, orbit_z2_im_out, likewise
  hist,    \* history: the frame at entry of step; the (zr, zi) that
           \* iterate tested, in order
  scratch, \* the static scratch array shared by bf_mul and bf_sqr
  th       \* two invocations of bf_mul / bf_sqr in progress

arithVars == <<op, a, b, r, d, str, dres>>
mandelVars ==
  <<fn, pc, args, fr, loop_i, ret, escape_iter, orbit_re, orbit_im, orbit_z2_re,
    orbit_z2_im, hist>>
raceVars == <<scratch, th>>
vars == <<arithVars, mandelVars, raceVars>>
notArith == <<mandelVars, raceVars>>
notMandel == <<arithVars, raceVars>>
notRace == <<arithVars, mandelVars>>

\* ----------------------------------------------------------------- inputs
\* limb contents: 0, the limb that is 1.0 when on top, and all ones
LimbVals == {0, 2^FracShift, LimbBase - 1}

\* precisions: 1..MaxLimbs limb by limb, and the two sides of the dispatch
\* threshold with a top limb t over equal lower limbs v
NSet == (1..MaxLimbs) \cup {KARATSUBA_THRESHOLD, KARATSUBA_THRESHOLD + 1}

LimbSeqs(n) ==
  IF n <= MaxLimbs THEN [0..(n - 1) -> LimbVals]
  ELSE {[i \in 0..(n - 1) |-> IF i = n - 1 THEN t ELSE v] : t \in LimbVals, v \in LimbVals}

AnyValues(n) == {MkBF(l, n, s) : l \in LimbSeqs(n), s \in {-1, 0, 1}}
\* the sign invariant: sign = 0 iff every active limb is 0
SignInv(x) == (x.sign = 0) <=> bf_is_zero(x)
Values(n) == {x \in AnyValues(n) : SignInv(x)}

\* doubles m * 2^e with at most SIG_BITS significant bits and |d| < 16, all
\* of them multiples of the resolution of the two-limb format
SIG_BITS == (24 * FracShift) \div 28
MinExp == -(2 * LimbBits - BF_INT_BITS)
Doubles ==
  {DNorm(s * m, e) : s \in {-1, 1}, m \in 0..(2^SIG_BITS - 1), e \in MinExp..3}
DLt16(x) == DLess(x, DInt(16)) /\ DLess(DInt(-16), x)

Strings ==
  { <<"0">>, <<"2">>, <<"-", "1">>, <<"0", ".", "5">>, <<"-", "0", ".", "7", "5">>,
    <<" ", "+", "1", ".", "2", "5">>, <<"0", ".", "0", "0", "1">>, <<"1", "x">>,
    <<"0", ".", "3">>, <<>> }

\* ------------------------------------------ the state of the idle parts
Frame(zr, zi, cr, ci, tmp1, tmp2, prod) ==
  [zr |-> zr, zi |-> zi, cr |-> cr, ci |-> ci, tmp1 |-> tmp1, tmp2 |-> tmp2, prod |-> prod]

NoArgs(n) == [cr_str |-> <<>>, ci_str |-> <<>>, max_iter |-> 0, precision_limbs |-> n]

MandelIdle ==
  /\ fn = "none"
  /\ pc = "idle"
  /\ args = NoArgs(1)
  /\ fr = Frame(bf_zero(1), bf_zero(1), bf_zero(1), bf_zero(1), bf_zero(1), bf_zero(1),
                bf_zero(1))
  /\ loop_i = 0
  /\ ret = 0
  /\ escape_iter = 0
  /\ orbit_re = <<>>
  /\ orbit_im = <<>>
  /\ orbit_z2_re = <<>>
  /\ orbit_z2_im = <<>>
  /\ hist = <<>>

ArithIdle ==
  /\ op = "idle"
  /\ a = bf_zero(1)
  /\ b = bf_zero(1)
  /\ r = bf_zero(1)
  /\ d = DZero
  /\ str = <<>>
  /\ dres = DZero

RaceIdle ==
  /\ scratch = <<>>
  /\ th = <<>>

\* ---------------------------------------------------- the arithmetic calls
InitArith ==
  /\ MandelIdle
  /\ RaceIdle
  /\ dres = DZero
  /\ \E n \in NSet :
       \/ /\ op = "args_ab"
          /\ a \in AnyValues(n)
          /\ b \in Values(n)
          /\ r = bf_zero(n)
          /\ d = DZero
          /\ str = <<>>
       \/ /\ a = bf_zero(n)
          /\ b = bf_zero(n)
          /\ r = bf_zero(n)
          /\ \/ op = "args_d" /\ d \in {x \in Doubles : DLt16(x)} /\ str = <<>>
             \/ op = "args_str" /\ d = DZero /\ str \in Strings

Zero ==
  /\ op = "args_str"
  /\ op' = "zero"
  /\ r' = bf_zero(a.nlimbs)
  /\ UNCHANGED <<a, b, d, str, dres, notArith>>

SetD ==
  /\ op = "args_d"
  /\ op' = "set_d"
  /\ r' = bf_set_d(d, a.nlimbs)
  /\ UNCHANGED <<a, b, d, str, dres, notArith>>

FromStr ==
  /\ op = "args_str"
  /\ op' = "from_str"
  /\ r' = bf_from_str(str, a.nlimbs)
  /\ UNCHANGED <<a, b, d, str, dres, notArith>>

Add ==
  /\ op = "args_ab"
  /\ op' = "add"
  /\ r' = bf_add(a, b)
  /\ UNCHANGED <<a, b, d, str, dres, notArith>>

Sub ==
  /\ op = "args_ab"
  /\ op' = "sub"
  /\ r' = bf_sub(a, b)
  /\ UNCHANGED <<a, b, d, str, dres, notArith>>

Mul ==
  /\ op = "args_ab"
  /\ op' = "mul"
  /\ r' = bf_mul(a, b)
  /\ UNCHANGED <<a, b, d, str, dres, notArith>>

Sqr ==
  /\ op = "args_ab"
  /\ op' = "sqr"
  /\ r' = bf_sqr(a)
  /\ UNCHANGED <<a, b, d, str, dres, notArith>>

\* bf_to_d on the value bf_set_d produced
ToD ==
  /\ op = "set_d"
  /\ op' = "to_d"
  /\ dres' = bf_to_d(r)
  /\ UNCHANGED <<a, b, r, d, str, notArith>>

\* bf_to_d on an operand with any limb contents
ToDValue ==
  /\ op = "args_ab"
  /\ op' = "to_d_value"
  /\ dres' = bf_to_d(a)
  /\ UNCHANGED <<a, b, r, d, str, notArith>>

NextArith == Zero \/ SetD \/ FromStr \/ Add \/ Sub \/ Mul \/ Sqr \/ ToD \/ ToDValue

\* ------------------------------------------------------- mandelbrot_step
AllLimbs(n, v) == [k \in 0..(n - 1) |-> v]
\* 1.0: the top limb holds integer part 1
One(n) == [AllLimbs(n, 0) EXCEPT ![n - 1] = 2^FracShift]

\* what a BigFloat on the stack may hold before its first assignment
JunkVals(n) == {bf_zero(n), MkBF(AllLimbs(n, LimbBase - 1), n, -1)}

StepZi(n) ==
  { bf_zero(n), MkBF(One(n), n, 1), MkBF(AllLimbs(n, LimbBase - 1), n, -1),
    MkBF(AllLimbs(n, 2^FracShift), n, 1) }
StepC(n) ==
  { bf_zero(n), MkBF(One(n), n, -1), MkBF(AllLimbs(n, LimbBase - 1), n, 1) }

InitStep ==
  /\ ArithIdle
  /\ RaceIdle
  /\ fn = "step"
  /\ pc = StepOrder[1]
  /\ loop_i = 0
  /\ ret = 0
  /\ escape_iter = 0
  /\ orbit_re = <<>>
  /\ orbit_im = <<>>
  /\ orbit_z2_re = <<>>
  /\ orbit_z2_im = <<>>
  /\ \E n \in NSet :
       /\ args = NoArgs(n)
       /\ \E zr \in Values(n), zi \in StepZi(n), cr \in StepC(n), ci \in StepC(n),
             junk \in JunkVals(n) :
            fr = Frame(zr, zi, cr, ci, junk, junk, junk)
  /\ hist = fr

StmtAfter(stmt) ==
  LET k == CHOOSE j \in 1..Len(StepOrder) : StepOrder[j] = stmt
  IN  IF k = Len(StepOrder) THEN "done" ELSE StepOrder[k + 1]

\* one statement of mandelbrot_step
StepStatement ==
  /\ fn = "step"
  /\ pc # "done"
  /\ fr' = StepStmt(pc, fr)
  /\ pc' = StmtAfter(pc)
  /\ UNCHANGED <<fn, args, loop_i, ret, escape_iter, orbit_re, orbit_im,
               orbit_z2_re, orbit_z2_im, hist, notMandel>>

NextStep == StepStatement

\* --------------------------------- mandelbrot_iterate, reference orbit
\* bound on max_iter
MaxIter == 4
\* max_iter of the reference orbit of -1
RefIters == 50

CrStrs == { <<"0">>, <<"2">>, <<"-", "1">>, <<"0", ".", "5">>, <<"-", "0", ".", "7", "5">> }
CiStrs == { <<"0">>, <<"0", ".", "5">>, <<"-", "1">> }

IterArgs(f) ==
  { [cr_str |-> cs, ci_str |-> is, max_iter |-> mi, precision_limbs |-> n] :
      cs \in CrStrs, is \in CiStrs, n \in NSet,
      mi \in IF f = "iterate" THEN 0..MaxIter ELSE {MaxIter, RefIters} }

InitIter ==
  /\ ArithIdle
  /\ RaceIdle
  /\ fn \in {"iterate", "orbit"}
  /\ pc = "entry"
  /\ args \in IterArgs(fn)
  /\ (args.max_iter = RefIters => args.cr_str = <<"-", "1">> /\ args.ci_str = <<"0">>)
  /\ \E junk \in JunkVals(args.precision_limbs) :
       fr = Frame(junk, junk, junk, junk, junk, junk, junk)
  /\ loop_i = 0
  /\ ret = 0
  /\ escape_iter = 0
  /\ orbit_re = <<>>
  /\ orbit_im = <<>>
  /\ orbit_z2_re = <<>>
  /\ orbit_z2_im = <<>>
  /\ hist = <<>>

\* parse the coordinates, z = 0
EntryFrame ==
  [fr EXCEPT !.cr = bf_from_str(args.cr_str, args.precision_limbs),
             !.ci = bf_from_str(args.ci_str, args.precision_limbs),
             !.zr = bf_zero(args.precision_limbs),
             !.zi = bf_zero(args.precision_limbs)]

IterateEntry ==
  /\ fn = "iterate"
  /\ pc = "entry"
  /\ fr' = EntryFrame
  /\ loop_i' = 0
  /\ pc' = "loop"
  /\ UNCHANGED <<fn, args, ret, escape_iter, orbit_re, orbit_im,
               orbit_z2_re, orbit_z2_im, hist, notMandel>>

\* mutant: the index after the escaping one is returned
IterateEscape_NextIndex ==
  /\ fn = "iterate"
  /\ pc = "loop"
  /\ loop_i < args.max_iter
  /\ bf_escaped(fr.zr, fr.zi, ESCAPE_ITERATE)
  /\ ret' = loop_i + 1
  /\ pc' = "done"
  /\ hist' = Append(hist, <<fr.zr, fr.zi>>)
  /\ UNCHANGED <<fn, args, fr, loop_i, escape_iter, orbit_re, orbit_im,
               orbit_z2_re, orbit_z2_im, notMandel>>

\* the escape test of pass i succeeds: return i
IterateEscape ==
  /\ fn = "iterate"
  /\ pc = "loop"
  /\ loop_i < args.max_iter
  /\ bf_escaped(fr.zr, fr.zi, ESCAPE_ITERATE)
  /\ ret' = loop_i
  /\ pc' = "done"
  /\ hist' = Append(hist, <<fr.zr, fr.zi>>)
  /\ UNCHANGED <<fn, args, fr, loop_i, escape_iter, orbit_re, orbit_im,
               orbit_z2_re, orbit_z2_im, notMandel>>

\* the escape test of pass i fails: z = z^2 + c, i++
IterateStep ==
  /\ fn = "iterate"
  /\ pc = "loop"
  /\ loop_i < args.max_iter
  /\ ~bf_escaped(fr.zr, fr.zi, ESCAPE_ITERATE)
  /\ fr' = mandelbrot_step(fr)
  /\ loop_i' = loop_i + 1
  /\ hist' = Append(hist, <<fr.zr, fr.zi>>)
  /\ UNCHANGED <<fn, pc, args, ret, escape_iter, orbit_re, orbit_im,
               orbit_z2_re, orbit_z2_im, notMandel>>

\* the loop ends: return max_iter
IterateReturn ==
  /\ fn = "iterate"
  /\ pc = "loop"
  /\ loop_i >= args.max_iter
  /\ ret' = args.max_iter
  /\ pc' = "done"
  /\ UNCHANGED <<fn, args, fr, loop_i, escape_iter, orbit_re, orbit_im,
               orbit_z2_re, orbit_z2_im, hist, notMandel>>

OrbitEntry ==
  /\ fn = "orbit"
  /\ pc = "entry"
  /\ fr' = EntryFrame
  /\ orbit_re' = <<DZero>>
  /\ orbit_im' = <<DZero>>
  /\ escape_iter' = -1
  /\ loop_i' = 0
  /\ pc' = "loop"
  /\ UNCHANGED <<fn, args, ret, orbit_z2_re, orbit_z2_im, hist, notMandel>>

\* one pass of the orbit loop: step, store, escape check
OrbitStep ==
  /\ fn = "orbit"
  /\ pc = "loop"
  /\ loop_i < args.max_iter
  /\ \E f1 \in {mandelbrot_step(fr)} :
     \E zr_d \in {bf_to_d(f1.zr)}, zi_d \in {bf_to_d(f1.zi)} :
       LET mag_sq == DAddPos(DMul(zr_d, zr_d), DMul(zi_d, zi_d))
       IN  /\ fr' = f1
           /\ orbit_re' = Append(orbit_re, zr_d)
           /\ orbit_im' = Append(orbit_im, zi_d)
           /\ IF DLess(ESCAPE_ORBIT, mag_sq)
                THEN escape_iter' = loop_i + 1 /\ ret' = loop_i + 1 /\ pc' = "done"
                     /\ loop_i' = loop_i
                ELSE loop_i' = loop_i + 1 /\ UNCHANGED <<escape_iter, ret, pc>>
  /\ UNCHANGED <<fn, args, orbit_z2_re, orbit_z2_im, hist, notMandel>>

OrbitReturn ==
  /\ fn = "orbit"
  /\ pc = "loop"
  /\ loop_i >= args.max_iter
  /\ ret' = args.max_iter
  /\ pc' = "done"
  /\ UNCHANGED <<fn, args, fr, loop_i, escape_iter, orbit_re, orbit_im,
               orbit_z2_re, orbit_z2_im, hist, notMandel>>

NextIter ==
  IterateEntry \/ IterateEscape \/ IterateStep \/ IterateReturn
    \/ OrbitEntry \/ OrbitStep \/ OrbitReturn

\* -------------------- reference orbits, plain and extended, of any c
\* bound on max_iter of the longest orbit
OrbitLen == 10

OrbitCrStrs ==
  { <<"0">>, <<"2">>, <<"-", "0", ".", "7", "5">>, <<"0", ".", "3">>,
    <<"1", "5", ".", "9">>, <<"1", "7">> }
OrbitCiStrs == { <<"0">>, <<"-", "1">>, <<"1", "5", ".", "9">> }

OrbitArgs ==
  { [cr_str |-> cs, ci_str |-> is, max_iter |-> mi, precision_limbs |-> n] :
      cs \in OrbitCrStrs, is \in OrbitCiStrs, n \in NSet,
      mi \in {0, 1, MaxIter, OrbitLen} }

InitOrbit ==
  /\ ArithIdle
  /\ RaceIdle
  /\ fn \in {"orbit", "orbit_ext"}
  /\ pc = "entry"
  /\ args \in OrbitArgs
  /\ \E junk \in JunkVals(args.precision_limbs) :
       fr = Frame(junk, junk, junk, junk, junk, junk, junk)
  /\ loop_i = 0
  /\ ret = 0
  /\ escape_iter = 0
  /\ orbit_re = <<>>
  /\ orbit_im = <<>>
  /\ orbit_z2_re = <<>>
  /\ orbit_z2_im = <<>>
  /\ hist = <<>>

OrbitExtEntry ==
  /\ fn = "orbit_ext"
  /\ pc = "entry"
  /\ fr' = EntryFrame
  /\ orbit_re' = <<DZero>>
  /\ orbit_im' = <<DZero>>
  /\ orbit_z2_re' = <<DZero>>
  /\ orbit_z2_im' = <<DZero>>
  /\ escape_iter' = -1
  /\ loop_i' = 0
  /\ pc' = "loop"
  /\ UNCHANGED <<fn, args, ret, hist, notMandel>>

\* one pass of the extended loop: the squares z2r, z2i of the old zr, zi
\* (written by bf_sqr before they are read), step, store, escape check
OrbitExtStep ==
  /\ fn = "orbit_ext"
  /\ pc = "loop"
  /\ loop_i < args.max_iter
  /\ \E z2r \in {bf_sqr(fr.zr)}, z2i \in {bf_sqr(fr.zi)}, f1 \in {mandelbrot_step(fr)} :
     \E zr_d \in {bf_to_d(f1.zr)}, zi_d \in {bf_to_d(f1.zi)} :
       LET z2r_d  == bf_to_d(z2r)
           z2i_d  == bf_to_d(z2i)
           mag_sq == DAddPos(DMul(zr_d, zr_d), DMul(zi_d, zi_d))
       IN  /\ fr' = f1
           /\ orbit_re' = Append(orbit_re, zr_d)
           /\ orbit_im' = Append(orbit_im, zi_d)
           /\ orbit_z2_re' = Append(orbit_z2_re, DDiff(z2r_d, z2i_d))
           /\ orbit_z2_im' = Append(orbit_z2_im,
                                    DMul(DScale(orbit_re[loop_i + 1], 1), orbit_im[loop_i + 1]))
           /\ IF DLess(ESCAPE_ORBIT, mag_sq)
                THEN escape_iter' = loop_i + 1 /\ ret' = loop_i + 1 /\ pc' = "done"
                     /\ loop_i' = loop_i
                ELSE loop_i' = loop_i + 1 /\ UNCHANGED <<escape_iter, ret, pc>>
  /\ UNCHANGED <<fn, args, hist, notMandel>>

OrbitExtReturn ==
  /\ fn = "orbit_ext"
  /\ pc = "loop"
  /\ loop_i >= args.max_iter
  /\ ret' = args.max_iter
  /\ pc' = "done"
  /\ UNCHANGED <<fn, args, fr, loop_i, escape_iter, orbit_re, orbit_im,
               orbit_z2_re, orbit_z2_im, hist, notMandel>>

NextOrbit ==
  OrbitEntry \/ OrbitStep \/ OrbitReturn \/ OrbitExtEntry \/ OrbitExtStep \/ OrbitExtReturn

\* ------------------------------------- two invocations on one scratch
\* mutant: the scratch is not cleared
Memset_None(s, n) == s

\* memset(scratch, 0, (2 * n + 2) * sizeof(limb_t)) on the shared array
Memset(s, n) == [k \in DOMAIN s |-> IF k < 2 * n + 2 THEN 0 ELSE s[k]]

Threads == {1, 2}
RaceVals(n) == {MkBF(AllLimbs(n, LimbBase - 1), n, -1), MkBF(AllLimbs(n, 2^FracShift), n, 1)}

\* an invocation before its first statement: bf_mul(r, x, y) or bf_sqr(r, x)
Invocations ==
  UNION { {[fn |-> "mul", x |-> x, y |-> y, pc |-> "clear", i |-> 0, r |-> bf_zero(n),
            hit |-> FALSE] : x \in RaceVals(n), y \in RaceVals(n)}
          \cup
          {[fn |-> "sqr", x |-> x, y |-> x, pc |-> "clear", i |-> 0, r |-> bf_zero(n),
            hit |-> FALSE] : x \in RaceVals(n)} : n \in 1..MaxLimbs }

InitRace ==
  /\ ArithIdle
  /\ MandelIdle
  /\ scratch = [k \in 0..(2 * MaxLimbs + 1) |-> 0]
  /\ th \in [Threads -> Invocations]

\* history: an invocation between its memset and its extraction whose
\* scratch another invocation writes has been hit
HitBy(t) ==
  [u \in Threads |->
     IF u # t /\ th[u].pc \in {"acc", "extract"} THEN [th[u] EXCEPT !.hit = TRUE] ELSE th[u]]

\* "Clear scratch"
RaceClear(t) ==
  /\ th[t].pc = "clear"
  /\ scratch' = Memset(scratch, th[t].x.nlimbs)
  /\ th' = [HitBy(t) EXCEPT ![t].pc = "acc", ![t].i = 0]
  /\ UNCHANGED notRace

\* one pass of the outer loop of bf_mul_schoolbook or bf_sqr
RaceRow(t) ==
  /\ th[t].pc = "acc"
  /\ scratch' = IF th[t].fn = "mul" THEN MulRow(scratch, th[t].x, th[t].y, th[t].i)
                ELSE SqrRow(scratch, th[t].x, th[t].i)
  /\ th' = [HitBy(t) EXCEPT ![t].i = th[t].i + 1,
                            ![t].pc = IF th[t].i + 1 < th[t].x.nlimbs THEN "acc" ELSE "extract"]
  /\ UNCHANGED notRace

\* the extraction loop and the sign
RaceExtract(t) ==
  /\ th[t].pc = "extract"
  /\ LET n    == th[t].x.nlimbs
         sign == IF th[t].fn = "mul" THEN MulSign(th[t].x, th[t].y)
                 ELSE IF th[t].x.sign # 0 THEN 1 ELSE 0
     IN  th' = [th EXCEPT ![t].r = NormZero(MkBF(Extract(scratch, n), n, sign)),
                          ![t].pc = "done"]
  /\ UNCHANGED <<scratch, notRace>>

NextRace == \E t \in Threads : RaceClear(t) \/ RaceRow(t) \/ RaceExtract(t)

\* -------------------------------------------------------- specifications
\* the arithmetic and conversion calls
Init == InitArith
Next == NextArith
Spec == Init /\ [][Next]_vars

\* mandelbrot_step, statement by statement
SpecStep == InitStep /\ [][NextStep]_vars

\* mandelbrot_iterate and compute_reference_orbit
SpecIter == InitIter /\ [][NextIter]_vars

\* bf_mul and bf_sqr interleaved on the shared scratch
SpecRace == InitRace /\ [][NextRace]_vars

\* the reference orbits
SpecOrbit == InitOrbit /\ [][NextOrbit]_vars

\* ================================================================ claims
\* The base-2^LimbBits digits of the integer product A*B of two magnitudes,
\* computed column by column: ColSum is the sum of the limb products of
\* weight k, ColCarry the carry into column k.
RECURSIVE ColSumFrom(_, _, _, _)
ColSumFrom(x, y, k, i) ==
  IF i >= x.nlimbs THEN 0
  ELSE (IF k - i >= 0 /\ k - i < x.nlimbs THEN x.limbs[i] * y.limbs[k - i] ELSE 0)
       + ColSumFrom(x, y, k, i + 1)

\* ColAcc(x, y)[k] is column k's sum plus the carry into it
RECURSIVE ColAccTo(_, _, _)
ColAccTo(x, y, k) ==
  IF k < 0 THEN <<>>
  ELSE LET prev == ColAccTo(x, y, k - 1)
           cin  == IF k = 0 THEN 0 ELSE prev[k] \div LimbBase
       IN  Append(prev, ColSumFrom(x, y, k, 0) + cin)

\* digit k of A*B, k in 0..2n (digit 2n is 0)
ProductDigits(x, y) ==
  LET acc == ColAccTo(x, y, 2 * x.nlimbs - 1)
  IN  [k \in 0..(2 * x.nlimbs) |-> IF k = 2 * x.nlimbs THEN 0 ELSE acc[k + 1] % LimbBase]

\* the limbs of floor(A*B / 2^(LimbBits*n - 4)) mod 2^(LimbBits*n)
ProductWindow(x, y) ==
  LET p == ProductDigits(x, y)
      n == x.nlimbs
  IN  [i \in 0..(n - 1) |->
         (p[n + i - 1] \div 2^FracShift) + (p[n + i] % 2^FracShift) * 2^BF_INT_BITS]

\* the magnitude as an integer, least-significant limb first
RECURSIVE MagFrom(_, _)
MagFrom(x, i) == IF i >= x.nlimbs THEN 0 ELSE x.limbs[i] + LimbBase * MagFrom(x, i + 1)
Mag(x) == MagFrom(x, 0)

\* C1 (as claimed): square(r, a) produces exactly the limbs and the sign
\* that multiply(r, a, a) produces, for any limb contents and any sign.
C1_SquareEqualsMultiply ==
  op = "sqr" => r = bf_mul(a, a)

\* C2: for a, b satisfying the sign invariant, multiply yields the limbs of
\* floor(A*B / 2^(W*n-4)) mod 2^(W*n) (W the limb width), sign zero if an
\* operand is zero or the result limbs are all zero, positive if the operand
\* signs are equal, negative otherwise; on both sides of the dispatch
\* threshold.
C2_MultiplyWindow ==
  (op = "mul" /\ SignInv(a)) =>
    /\ r.nlimbs = a.nlimbs
    /\ r.limbs = ProductWindow(a, b)
    /\ (2 * a.nlimbs * LimbBits <= 30 =>
          Mag(r) = ((Mag(a) * Mag(b)) \div 2^(LimbBits * a.nlimbs - BF_INT_BITS))
                     % 2^(LimbBits * a.nlimbs))
    /\ r.sign = IF a.sign = 0 \/ b.sign = 0 \/ bf_is_zero(r) THEN 0
                ELSE IF a.sign = b.sign THEN 1 ELSE -1

\* a negative product above the dispatch threshold whose lowest limb holds
\* bits re-read from below the window
C2_Witness ==
  /\ op = "mul"
  /\ SignInv(a)
  /\ a.nlimbs > KARATSUBA_THRESHOLD
  /\ a.sign = -b.sign
  /\ r.sign = -1
  /\ r.limbs[0] % 2^BF_INT_BITS # 0

\* C3 (as claimed): every value produced by zero, from_double,
\* from_decimal_string, add, subtract, multiply or square from operands that
\* satisfy the invariant has sign zero iff all its active limbs are 0.
C3_SignZeroIffLimbsZero ==
  (op \in {"zero", "set_d", "from_str", "add", "sub", "mul", "sqr"}
     /\ SignInv(a) /\ SignInv(b)) => SignInv(r)

\* C4 (as claimed): for every double d with at most SIG_BITS significant
\* bits and |d| < 16, and n >= 2, to_double(from_double(d, n)) = d.
C4_RoundTrip ==
  (op = "to_d" /\ a.nlimbs >= 2) => dres = d

\* C9: for a, b satisfying the sign invariant, add(r, a, b) and add(r, b, a)
\* produce the same limbs and sign, and add(r, a, zero) produces exactly a.
C9_AddCommutesZeroIdentity ==
  (op = "add" /\ SignInv(a)) =>
    /\ r = bf_add(b, a)
    /\ (b.sign = 0 => r = a)

\* operands of opposite signs, the second the larger in magnitude
C9_Witness ==
  /\ op = "add"
  /\ SignInv(a)
  /\ a.sign = 1
  /\ b.sign = -1
  /\ bf_cmp_mag(a, b) < 0
  /\ r.sign = -1

\* what an invocation returns when it runs alone
Solo(inv) == IF inv.fn = "mul" THEN bf_mul(inv.x, inv.y) ELSE bf_sqr(inv.x)

\* C5: the core is not reentrant.  An invocation that no other invocation
\* interleaves with (none writes the scratch between its memset and its
\* extraction) returns what it returns alone; C5_Witness is the state the
\* claim says is reachable, an invocation that returned other limbs.
C5_UndisturbedIsSolo ==
  \A t \in Threads : (th[t].pc = "done" /\ ~th[t].hit) => th[t].r = Solo(th[t])

C5_Witness ==
  \E t \in Threads : th[t].pc = "done" /\ th[t].r.limbs # Solo(th[t]).limbs

IsIterate(cs, is) ==
  fn = "iterate" /\ pc = "done" /\ args.cr_str = cs /\ args.ci_str = is

\* C6 (as claimed): iterate("2", "0", max_iter, n) returns 0 for every
\* max_iter >= 1 and every precision n.
C6_IterateTwoReturnsZero ==
  (IsIterate(<<"2">>, <<"0">>) /\ args.max_iter >= 1) => ret = 0

\* C6 (amended): iterate("2", "0", max_iter, n) returns min(max_iter, 2) for
\* every max_iter >= 1 and every precision n: z_0 = 0 and z_1 = 2 do not
\* pass the test |z|^2 > 4, z_2 = 6 does.
C6_IterateTwoReturnsTwo ==
  (IsIterate(<<"2">>, <<"0">>) /\ args.max_iter >= 1) =>
    ret = IF args.max_iter < 2 THEN args.max_iter ELSE 2

C6_Witness ==
  IsIterate(<<"2">>, <<"0">>) /\ args.max_iter > 2 /\ ret = 2 /\ Len(hist) = 3

\* C7: iterate starts from z_0 = 0, tests escaped(z_i, 4.0) before step i and
\* returns the smallest i in [0, max_iter) whose test is true, or max_iter if
\* there is none; the result is in [0, max_iter], at most max_iter steps are
\* performed, and for c = ("0", "0") the result is max_iter.  hist[k + 1] is
\* the z tested in pass k, loop_i the number of steps performed.
C7_IterateFirstEscape ==
  (fn = "iterate" /\ pc = "done") =>
    LET n == args.precision_limbs
    IN  /\ ret \in 0..args.max_iter
        /\ loop_i <= args.max_iter
        /\ loop_i = ret
        /\ Len(hist) = IF ret < args.max_iter THEN ret + 1 ELSE args.max_iter
        /\ (Len(hist) > 0 => hist[1] = <<bf_zero(n), bf_zero(n)>>)
        /\ \A k \in 1..(Len(hist) - 1) :
             LET f == mandelbrot_step([fr EXCEPT !.zr = hist[k][1], !.zi = hist[k][2]])
             IN  hist[k + 1] = <<f.zr, f.zi>>
        /\ \A k \in 0..(ret - 1) : ~bf_escaped(hist[k + 1][1], hist[k + 1][2], ESCAPE_ITERATE)
        /\ (ret < args.max_iter =>
              bf_escaped(hist[ret + 1][1], hist[ret + 1][2], ESCAPE_ITERATE))
        /\ (args.cr_str = <<"0">> /\ args.ci_str = <<"0">> => ret = args.max_iter)

\* an escape found at a pass that is neither the first nor the last
C7_Witness ==
  /\ fn = "iterate"
  /\ pc = "done"
  /\ args.ci_str = <<"-", "1">>
  /\ ret > 0
  /\ ret < args.max_iter - 1

IsRefOrbit ==
  /\ fn = "orbit"
  /\ pc \in {"loop", "done"}
  /\ args.cr_str = <<"-", "1">>
  /\ args.ci_str = <<"0">>
  /\ args.max_iter = RefIters

\* C8: compute_reference_orbit("-1", "0", RefIters, n) returns RefIters with
\* escape_iter = -1 for every n; the orbit alternates between (0,0) and
\* (-1,0) at every recorded index, and zr is zero, with sign zero, after
\* every second step.
C8_OrbitOfMinusOne ==
  IsRefOrbit =>
    LET n == args.precision_limbs
    IN  /\ Len(orbit_re) = loop_i + 1
        /\ Len(orbit_im) = loop_i + 1
        /\ \A k \in 0..loop_i :
             /\ orbit_re[k + 1] = IF k % 2 = 0 THEN DZero ELSE DInt(-1)
             /\ orbit_im[k + 1] = DZero
        /\ fr.zi = bf_zero(n)
        /\ fr.zr = IF loop_i % 2 = 0 THEN bf_zero(n) ELSE MkBF(One(n), n, -1)
        /\ escape_iter = -1
        /\ (pc = "done" => ret = RefIters /\ loop_i = RefIters)

C8_Witness ==
  /\ IsRefOrbit
  /\ pc = "done"
  /\ args.precision_limbs > KARATSUBA_THRESHOLD
  /\ ret = RefIters
  /\ Len(orbit_re) = RefIters + 1

\* C10: after step, zi = add(2 * multiply(zr_old, zi_old), ci) and
\* zr = add(subtract(square(zr_old), square(zi_old)), cr), from the values
\* held before the call (hist is the frame at entry); cr and ci are
\* unchanged.
C10_StepUsesOldValues ==
  (fn = "step" /\ pc = "done") =>
    /\ fr.zi = bf_add(DoubleLimbs(bf_mul(hist.zr, hist.zi)), hist.ci)
    /\ fr.zr = bf_add(bf_sub(bf_sqr(hist.zr), bf_sqr(hist.zi)), hist.cr)
    /\ fr.cr = hist.cr
    /\ fr.ci = hist.ci

\* a step whose new zi has another square than the old one
C10_Witness ==
  /\ fn = "step"
  /\ pc = "done"
  /\ hist.zr.sign # 0
  /\ hist.zi.sign # 0
  /\ hist.tmp2.sign # 0
  /\ bf_sqr(fr.zi) # bf_sqr(hist.zi)
  /\ fr.zr # hist.zr

\* the double x as an integer number of units 2^lo, for lo <= x.e
DUnits(x, lo) == IF x.m = 0 THEN 0 ELSE x.m * 2^(x.e - lo)

\* C11: to_double(a) is the value of the fixed-point convention: for n >= 2
\* the result equals sign * M / 2^(w*n - 4), M the n-limb magnitude, up to
\* double rounding (here: within n units in the last place of the double
\* significand, one for each term the loop adds); so the limb below the top
\* one weighs 2^-(2w - 4), 2^-60 in the source, continuing the top limb's
\* fraction.  Stated for the sizes whose magnitude is an integer of the model.
C11_ToDoubleIsFixedPointValue ==
  (op = "to_d_value" /\ SignInv(a) /\ a.nlimbs >= 2 /\ a.nlimbs <= MaxLimbs) =>
    LET n     == a.nlimbs
        lo    == -(LimbBits * n - BF_INT_BITS)
        exact == a.sign * Mag(a)
        got   == DUnits(dres, lo)
    IN  /\ (dres.m # 0 => dres.e >= lo)
        /\ Abs(got - exact) <= n * ((Abs(exact) \div 2^(DBL_MANT - 1)) + 1)

\* |x| < t / 10 for a double x and a positive integer t
DAbsBelowTenths(x, t) ==
  IF x.m = 0 THEN TRUE
  ELSE IF DTop(x) > BitLen(t) THEN FALSE
  ELSE IF DTop(x) < BitLen(t) - 4 THEN TRUE
  ELSE IF x.e >= 0 THEN Abs(x.m) * 2^x.e * 10 < t
  ELSE Abs(x.m) * 10 < t * 2^(-x.e)

\* |z|^2 as the orbit loops compute it from the recorded doubles
MagSq(k) ==
  DAddPos(DMul(orbit_re[k], orbit_re[k]), DMul(orbit_im[k], orbit_im[k]))

\* C12: in compute_reference_orbit and compute_reference_orbit_extended the
\* escape test |z|^2 > 1e16 is never true: to_double of any fixed-point value
\* is below 17.1 in magnitude, so |z|^2 stays below 600; for every input
\* (max_iter >= 0) the loop runs exactly max_iter steps, the return value is
\* max_iter, escape_iter is -1 on return and exactly the orbit indices
\* 0..max_iter are written.
C12_OrbitNeverEscapes ==
  /\ (fn \in {"orbit", "orbit_ext"} /\ pc = "entry") =>
       \A x \in AnyValues(args.precision_limbs) : DAbsBelowTenths(bf_to_d(x), 171)
  /\ (fn \in {"orbit", "orbit_ext"} /\ pc \in {"loop", "done"}) =>
       /\ loop_i <= args.max_iter
       /\ Len(orbit_re) = loop_i + 1
       /\ Len(orbit_im) = loop_i + 1
       /\ (fn = "orbit_ext" => Len(orbit_z2_re) = loop_i + 1 /\ Len(orbit_z2_im) = loop_i + 1)
       /\ orbit_re[loop_i + 1] = bf_to_d(fr.zr)
       /\ orbit_im[loop_i + 1] = bf_to_d(fr.zi)
       /\ \A k \in 1..Len(orbit_re) :
            /\ DAbsBelowTenths(orbit_re[k], 171)
            /\ DAbsBelowTenths(orbit_im[k], 171)
            /\ DAbsBelowTenths(MagSq(k), 6000)
            /\ ~DLess(ESCAPE_ORBIT, MagSq(k))
       /\ escape_iter = -1
       /\ (pc = "done" => ret = args.max_iter /\ loop_i = args.max_iter)

\* an extended orbit run to its end that recorded a value of 16 or more
C12_Witness ==
  /\ fn = "orbit_ext"
  /\ pc = "done"
  /\ args.max_iter = OrbitLen
  /\ ret = OrbitLen
  /\ escape_iter = -1
  /\ Len(orbit_re) = OrbitLen + 1
  /\ \E k \in 1..Len(orbit_re) : ~DLess(orbit_re[k], DInt(16))

====
